---- MODULE Spec2Model ----
(***************************************************************************)
(* A model of the PostgreSQL driver pgsqldriver (pgdriver.go): the         *)
(* Connection (driverConn), Statement (driverStmt) and ResultSet           *)
(* (driverRows) objects, the native libpq handles they own, and the        *)
(* release discipline of explicit Close calls and finalizers.              *)
(*                                                                         *)
(* Native handles live in `heap`: handle h is heap[h], NULL is 0.  Every   *)
(* entry counts the release calls (PQclear / PQfinish) made on it, so a    *)
(* leak is a handle with freed = 0 that nothing owns and a double release  *)
(* is a handle with freed = 2.  When no object can name a handle any more  *)
(* its address goes back to the allocator; if it was not released exactly  *)
(* once it is counted in `lost`.  `ret.got` keeps what the last call did   *)
(* with the handles it obtained.  The model follows one Connection,        *)
(* one Statement and one ResultSet at a time: the caller makes the next    *)
(* Statement or ResultSet when the one before is gone.  Texts are          *)
(* sequences of one-character strings.                                     *)
(***************************************************************************)
EXTENDS Integers, Sequences, FiniteSets, Bags, TLC

VARIABLES
    conn,    \* the driverConn: [opened, db, stmtNum, fin, reach]
    stmts,   \* stmts[1]: the driverStmt of the program (GoneStmt: none)
    rows,    \* rows[1]: the driverRows of the program (GoneRows: none)
    dest,    \* dest[j]: the caller's destination slots for rows[j]
    calls,   \* calls[j]: how many times Next was called on rows[j]
    heap,    \* the native handles: heap[h] for the address h
    lost,    \* the native handles nothing can name that were not released once
    names,   \* the statement names passed to PQprepare, in order
    server,  \* what the server keeps: the prepared statements and a table
    ret,     \* what the last call returned to its caller
    fault    \* TRUE once undefined behaviour has aborted the process

vars == <<conn, stmts, rows, dest, calls, heap, lost, names, server, ret, fault>>

-----------------------------------------------------------------------------
(* Bounds of the model. *)

MaxFree == 2        \* release calls modelled on one native handle
MaxRows == 2        \* rows of a materialized result
MaxPast == 2        \* Next calls modelled after the cursor is exhausted
MaxPrepares == 2    \* Prepare calls on the connection
MaxBytes == 2       \* bytes of a byte-sequence parameter

\* addresses of native handles in use at once: the session, the prepare
\* result of the Statement, the result of the ResultSet, and the result of
\* the call in progress
MaxHandles == 4

NULL == 0

-----------------------------------------------------------------------------
(* Texts. *)

Digits == <<"0", "1", "2", "3", "4", "5", "6", "7", "8", "9">>

HexDigits == <<"0", "1", "2", "3", "4", "5", "6", "7",
               "8", "9", "a", "b", "c", "d", "e", "f">>

UpperHexDigits == <<"0", "1", "2", "3", "4", "5", "6", "7",
                    "8", "9", "A", "B", "C", "D", "E", "F">>

\* strconv.Itoa on a non-negative int
RECURSIVE Itoa(_)
Itoa(n) ==
    IF n < 10 THEN <<Digits[n + 1]>>
    ELSE Itoa(n \div 10) \o <<Digits[(n % 10) + 1]>>

IsDigit(c) == \E d \in 1..10 : Digits[d] = c

DigitVal(c) == (CHOOSE d \in 1..10 : Digits[d] = c) - 1

RECURSIVE Atoui64(_)
Atoui64(s) ==
    IF s = <<>> THEN 0
    ELSE Atoui64(SubSeq(s, 1, Len(s) - 1)) * 10 + DigitVal(s[Len(s)])

\* strconv.Atoi64: an optional sign, then at least one decimal digit
Atoi64(s) ==
    LET signed == s # <<>> /\ s[1] \in {"+", "-"}
        body == IF signed THEN Tail(s) ELSE s
    IN  IF body = <<>> \/ \E i \in 1..Len(body) : ~IsDigit(body[i])
        THEN [ok |-> FALSE, v |-> 0]
        ELSE [ok |-> TRUE,
              v |-> IF signed /\ s[1] = "-" THEN 0 - Atoui64(body)
                    ELSE Atoui64(body)]

\* strings.HasPrefix
HasPrefix(s, p) == Len(s) >= Len(p) /\ SubSeq(s, 1, Len(p)) = p

IsHex(c) == \E d \in 1..16 : HexDigits[d] = c \/ UpperHexDigits[d] = c

HexVal(c) == (CHOOSE d \in 1..16 : HexDigits[d] = c \/ UpperHexDigits[d] = c) - 1

\* hex.DecodeString: an odd length or a character that is no hex digit fails
DecodeString(s) ==
    IF Len(s) % 2 = 1 THEN [ok |-> FALSE, v |-> <<>>, msg |-> "odd length hex string"]
    ELSE IF \E i \in 1..Len(s) : ~IsHex(s[i])
    THEN [ok |-> FALSE, v |-> <<>>, msg |-> "invalid hex char"]
    ELSE [ok |-> TRUE,
          v |-> [k \in 1..(Len(s) \div 2) |->
                    HexVal(s[2 * k - 1]) * 16 + HexVal(s[2 * k])],
          msg |-> ""]

-----------------------------------------------------------------------------
(* Server type identifiers. *)

BOOLOID == 16
BYTEAOID == 17
CHAROID == 18
INT8OID == 20
INT2OID == 21
INT4OID == 23
TEXTOID == 25
OIDOID == 26
XIDOID == 28
POINTOID == 600
FLOAT4OID == 700
FLOAT8OID == 701
BPCHAROID == 1042
VARCHAROID == 1043
DATEOID == 1082
TIMEOID == 1083
TIMESTAMPOID == 1114
TIMESTAMPTZOID == 1184
INTERVALOID == 1186
TIMETZOID == 1266
NUMERICOID == 1700

-----------------------------------------------------------------------------
(* Errors and host values. *)

Nil == [kind |-> "nil"]
EOF == [kind |-> "EOF"]
ConnErr == [kind |-> "conn error"]
ResultErr == [kind |-> "result error"]
NumErr == [kind |-> "NumError"]

\* argErr(i, argType, err); i is the Go (0-based) column index
argErr(i, argType, err) == [kind |-> "argErr", i |-> i, argType |-> argType, msg |-> err]

UnsupportedErr(vtype) == [kind |-> "unsupported type oid", oid |-> vtype]

NilVal == [t |-> "nil"]
StrVal(s) == [t |-> "string", v |-> s]
BytesVal(b) == [t |-> "[]byte", v |-> b]
OldVal == [t |-> "old"]  \* what the caller left in a slot before the call
IntVal(n) == [t |-> "int", v |-> n]
BoolVal(b) == [t |-> "bool", v |-> b]

\* as EncodeToString, but without the leading zero of a byte below 16
RECURSIVE EncodeToStringShort(_)
EncodeToStringShort(b) ==
    IF b = <<>> THEN <<>>
    ELSE (IF b[1] < 16 THEN <<HexDigits[b[1] + 1]>>
          ELSE <<HexDigits[(b[1] \div 16) + 1], HexDigits[(b[1] % 16) + 1]>>)
         \o EncodeToStringShort(Tail(b))

\* hex.EncodeToString: two lower-case digits per byte
EncodeToString(b) ==
    [k \in 1..(2 * Len(b)) |->
        IF k % 2 = 1 THEN HexDigits[(b[(k + 1) \div 2] \div 16) + 1]
        ELSE HexDigits[(b[k \div 2] % 16) + 1]]

\* fmt.Sprint of an int or a string
Sprint(v) ==
    IF v.t = "int" THEN (IF v.v < 0 THEN <<"-">> \o Itoa(0 - v.v) ELSE Itoa(v.v))
    ELSE v.v

\* buildCArgs: the wire text of each parameter ([]byte, bool, and the
\* default case for int and string parameters)
buildCArgs(params) ==
    [i \in 1..Len(params) |->
        CASE params[i].t = "[]byte" -> <<"\\", "x">> \o EncodeToString(params[i].v)
          [] params[i].t = "bool" -> IF params[i].v THEN <<"t">> ELSE <<"f">>
          [] OTHER -> Sprint(params[i])]

-----------------------------------------------------------------------------
(* Materialized results of the server. *)

NullCell == [null |-> TRUE, val |-> <<>>]
Cell(s) == [null |-> FALSE, val |-> s]

NoTable == [types |-> <<>>, cells |-> <<>>]

\* what the server answers to a command: a NULL result, an error result, or
\* a result with a count text, a parameter count and a table
Resp(null, err, tuples, nparams, tbl) ==
    [null |-> null, err |-> err, tuples |-> tuples, nparams |-> nparams, tbl |-> tbl]

NullResp == Resp(TRUE, FALSE, <<>>, 0, NoTable)
ErrResp == Resp(FALSE, TRUE, <<>>, 0, NoTable)
OkResp(tuples, nparams, tbl) == Resp(FALSE, FALSE, tuples, nparams, tbl)

-----------------------------------------------------------------------------
(* The native library: libpq as the driver calls it.  Every function       *)
(* accepts a NULL pointer: PQclear and PQfinish do nothing on it, the      *)
(* accessors return the empty text, 0, or "is null".                       *)

Empty == [origin |-> "", freed |-> 0, resp |-> Resp(TRUE, FALSE, <<>>, 0, NoTable)]

FreeSlots(hp) == {h \in DOMAIN hp : hp[h] = Empty}

\* the allocator hands out the lowest free address
NewHandle(hp) == CHOOSE h \in FreeSlots(hp) : \A k \in FreeSlots(hp) : h <= k

Alloc(hp, origin, resp) ==
    [hp EXCEPT ![NewHandle(hp)] = [origin |-> origin, freed |-> 0, resp |-> resp]]

\* a released handle keeps nothing of what it held
PQclear(hp, res) ==
    IF res = NULL THEN hp
    ELSE [hp EXCEPT ![res].freed = @ + 1, ![res].resp = NullResp]

PQfinish(hp, db) ==
    IF db = NULL THEN hp
    ELSE [hp EXCEPT ![db].freed = @ + 1, ![db].resp = NullResp]

\* the handle has been released: using it again is undefined behaviour
Stale(hp, h) == h # NULL /\ hp[h].freed > 0

\* resultError: nil when the result carries no error message (also for NULL)
resultError(hp, res) ==
    IF res # NULL /\ hp[res].resp.err THEN ResultErr ELSE Nil

PQcmdTuples(hp, res) == IF res = NULL THEN <<>> ELSE hp[res].resp.tuples

PQnparams(hp, res) == IF res = NULL THEN 0 ELSE hp[res].resp.nparams

PQntuples(hp, res) == IF res = NULL THEN 0 ELSE Len(hp[res].resp.tbl.cells)

PQnfields(hp, res) == IF res = NULL THEN 0 ELSE Len(hp[res].resp.tbl.types)

\* row and col are the C (0-based) numbers; out of range counts as null
PQgetisnull(hp, res, row, col) ==
    IF res = NULL \/ row < 0 \/ row >= PQntuples(hp, res)
       \/ col < 0 \/ col >= PQnfields(hp, res)
    THEN 1
    ELSE IF hp[res].resp.tbl.cells[row + 1][col + 1].null THEN 1 ELSE 0

PQgetvalue(hp, res, row, col) == hp[res].resp.tbl.cells[row + 1][col + 1].val

PQftype(hp, res, col) == hp[res].resp.tbl.types[col + 1]

\* the server names column i of a result "c<i>"
PQfname(hp, res, col) ==
    IF res = NULL \/ col < 0 \/ col >= PQnfields(hp, res) THEN <<>>
    ELSE <<"c">> \o Itoa(col)

\* PQexec, PQexecParams, PQexecPrepared, PQprepare, PQdescribePrepared on
\* session db: NULL on a NULL session or when the library cannot produce a
\* result, else a new result handle carrying the server's answer
Send(hp, db, origin, resp) ==
    IF db = NULL \/ resp.null THEN [heap |-> hp, res |-> NULL]
    ELSE [heap |-> Alloc(hp, origin, resp), res |-> NewHandle(hp)]

\* an object can still act while it is reachable or its finalizer is armed;
\* after that the collector takes it and its place is free
Alive(o) == o.reach \/ o.fin

GoneStmt ==
    [name |-> <<>>, db |-> NULL, res |-> NULL, nparams |-> 0, fin |-> FALSE, reach |-> FALSE]

GoneRows ==
    [res |-> NULL, nrows |-> 0, currRow |-> -1, ncols |-> 0,
     cols |-> [nil |-> TRUE, v |-> <<>>], fin |-> FALSE, reach |-> FALSE]

Swept(o, gone) == IF Alive(o) THEN o ELSE gone

\* the lowest free place of objs
Place(objs) == CHOOSE i \in 1..Len(objs) : ~Alive(objs[i]) /\ \A k \in 1..(i - 1) : Alive(objs[k])

HasPlace(objs) == \E i \in 1..Len(objs) : ~Alive(objs[i])

Refs(c, ss, rr) ==
    (IF Alive(c) THEN {c.db} ELSE {})
    \cup UNION {IF Alive(ss[i]) THEN {ss[i].db, ss[i].res} ELSE {} : i \in 1..Len(ss)}
    \cup {rr[j].res : j \in {k \in 1..Len(rr) : Alive(rr[k])}}

\* the address of a handle that nothing can name again is of no account: the
\* allocator may hand it out again once the handle is released
Collect(hp, refs) ==
    [h \in DOMAIN hp |-> IF h \notin refs THEN Empty ELSE hp[h]]

\* the handles that nothing can name again and that were not released
\* exactly once: never released (leaked) or released more than once
Unowned(hp, refs) == {h \in DOMAIN hp : h \notin refs /\ hp[h] # Empty /\ hp[h].freed # 1}

Kind(e) == [origin |-> e.origin, freed |-> e.freed]

Lost(hp, refs) ==
    [k \in {Kind(hp[h]) : h \in Unowned(hp, refs)} |->
        Cardinality({h \in Unowned(hp, refs) : Kind(hp[h]) = k})]

\* the native handles a call obtained, with their release counts when the
\* call returns
Got(hp, res) ==
    IF res = NULL THEN {}
    ELSE {[h |-> res, origin |-> hp[res].origin, freed |-> hp[res].freed]}

-----------------------------------------------------------------------------
(* What a call returned. *)

NoVal == [t |-> "none"]
DDLSuccess == [t |-> "DDLSuccess"]
RowsAffected(n) == [t |-> "RowsAffected", n |-> n]
TxVal == [t |-> "driverConn"]
StmtVal(i) == [t |-> "driverStmt", i |-> i]
RowsVal(j) == [t |-> "driverRows", j |-> j]

\* a command handed to the native library: the function, the session handle
\* it was sent over, the command text or statement name, the parameter
\* texts, and what came back
Sent(fn, db, text, cargs, resp) ==
    [fn |-> fn, db |-> db, text |-> text, cargs |-> cargs, resp |-> resp]

\* op: the method; obj: the statement or result it was called on (0: the
\* connection); got: the native handles it obtained; stale: it passed a
\* released handle to the native library; via: the commands it sent, in order
Ret(op, obj, err, val, got, stale, via) ==
    [op |-> op, obj |-> obj, err |-> err, val |-> val, got |-> got,
     stale |-> stale, via |-> via]

-----------------------------------------------------------------------------
(* Construction.  The handlers that send a command (Exec, Prepare, and the  *)
(* Exec and Query of a Statement) take the server's answer as an input and  *)
(* leave `server` to the specification they are used in: a server that may  *)
(* answer anything keeps nothing, the server of SpecServer keeps a table.   *)

\* the server before any statement is prepared and any row is stored;
\* prepared: the statements by name; t: the values of the rows of the table
NoServer == [prepared |-> {}, t |-> <<>>]

NoConn == [opened |-> FALSE, db |-> NULL, stmtNum |-> 0, fin |-> FALSE, reach |-> FALSE]

Init ==
    /\ conn = NoConn
    /\ stmts = <<GoneStmt>>
    /\ rows = <<GoneRows>>
    /\ dest = << <<>> >>
    /\ calls = <<0>>
    /\ heap = [h \in 1..MaxHandles |-> Empty]
    /\ lost = EmptyBag
    /\ names = <<>>
    /\ server = NoServer
    /\ ret = Ret("none", 0, Nil, NoVal, {}, FALSE, <<>>)
    /\ fault = FALSE

-----------------------------------------------------------------------------
(* Connection. *)

\* postgresDriver.Open; out: what PQconnectdb reached
Open(out) ==
    /\ ~fault
    /\ ~conn.opened
    /\ out # "null" => FreeSlots(heap) # {}
    /\ LET db == IF out = "null" THEN NULL ELSE NewHandle(heap)
           hp == IF out = "null" THEN heap
                 ELSE Alloc(heap, "PQconnectdb",
                            IF out = "ok" THEN OkResp(<<>>, 0, NoTable) ELSE ErrResp)
           c == [opened |-> TRUE, db |-> db, stmtNum |-> 0, fin |-> TRUE, reach |-> TRUE]
           via == <<Sent("PQconnectdb", NULL, <<>>, <<>>,
                         IF out = "ok" THEN OkResp(<<>>, 0, NoTable)
                         ELSE IF out = "bad" THEN ErrResp ELSE NullResp)>>
       IN  IF out # "ok"
           THEN /\ heap' = Collect(PQfinish(hp, db), Refs(conn, stmts, rows))
                /\ lost' = lost (+) Lost(PQfinish(hp, db), Refs(conn, stmts, rows))
                /\ ret' = Ret("Open", 0, ConnErr, NoVal, Got(PQfinish(hp, db), db),
                              FALSE, via)
                /\ conn' = conn
           ELSE /\ heap' = hp
                /\ lost' = lost
                /\ conn' = c
                /\ ret' = Ret("Open", 0, Nil, TxVal, Got(hp, db), FALSE, via)
    /\ UNCHANGED <<stmts, rows, dest, calls, names, server, fault>>

\* as connExecVia, but always the plain send
connExecViaPlain(nargs) == "PQexec"

\* driverConn.exec: the plain send without arguments, else the parameterized one
connExecVia(nargs) == IF nargs = 0 THEN "PQexec" ELSE "PQexecParams"

\* as ConnExecResult, but releasing the result only where a value is returned
ConnExecResultLeaky(hp, cres) ==
    IF resultError(hp, cres) # Nil
    THEN [heap |-> PQclear(hp, cres), err |-> resultError(hp, cres), val |-> NoVal]
    ELSE LET ns == PQcmdTuples(hp, cres)
             n == Atoi64(ns)
         IN  [heap |-> IF ns = <<>> \/ n.ok THEN PQclear(hp, cres) ELSE hp,
              err |-> IF ns = <<>> \/ n.ok THEN Nil ELSE NumErr,
              val |-> IF ns = <<>> THEN DDLSuccess
                      ELSE IF n.ok THEN RowsAffected(n.v) ELSE NoVal]

\* driverConn.Exec after the send: classify the result and release it
ConnExecResult(hp, cres) ==
    IF resultError(hp, cres) # Nil
    THEN [heap |-> PQclear(hp, cres), err |-> resultError(hp, cres), val |-> NoVal]
    ELSE LET ns == PQcmdTuples(hp, cres)
             n == Atoi64(ns)
         IN  [heap |-> PQclear(hp, cres),   \* the deferred PQclear
              err |-> IF ns = <<>> \/ n.ok THEN Nil ELSE NumErr,
              val |-> IF ns = <<>> THEN DDLSuccess
                      ELSE IF n.ok THEN RowsAffected(n.v) ELSE NoVal]

\* what Exec, Begin, Commit and Rollback hand back from Exec's outcome
ConnCmdVal(op, r) ==
    CASE op = "Exec" -> r.val
      [] op = "Begin" -> IF r.err = Nil THEN TxVal ELSE NoVal
      [] OTHER -> NoVal

\* the command text of a call: the caller's for Exec
QueryText == <<"S", "Q", "L">>

CmdText(op) ==
    CASE op = "Begin" -> <<"B", "E", "G", "I", "N">>
      [] op = "Commit" -> <<"C", "O", "M", "M", "I", "T">>
      [] op = "Rollback" -> <<"R", "O", "L", "L", "B", "A", "C", "K">>
      [] OTHER -> QueryText

\* a parameter list of n parameters
ArgsOf(n) == [k \in 1..n |-> IntVal(k)]

\* driverConn.Exec, and Begin, Commit, Rollback, which call it with no arguments
ConnCmd(op, nargs, resp) ==
    /\ ~fault
    /\ conn.opened /\ conn.reach
    /\ op # "Exec" => nargs = 0
    /\ conn.db = NULL => resp = NullResp
    /\ ~resp.null => FreeSlots(heap) # {}
    /\ LET s == Send(heap, conn.db, "ConnExec", resp)
           r == ConnExecResult(s.heap, s.res)
       IN  /\ heap' = Collect(r.heap, Refs(conn, stmts, rows))
           /\ lost' = lost (+) Lost(r.heap, Refs(conn, stmts, rows))
           /\ ret' = Ret(op, 0, r.err, ConnCmdVal(op, r), Got(r.heap, s.res),
                         Stale(heap, conn.db),
                         <<Sent(connExecVia(nargs), conn.db, CmdText(op),
                                buildCArgs(ArgsOf(nargs)), resp)>>)
    /\ UNCHANGED <<conn, stmts, rows, dest, calls, names, fault>>

\* as connClose, but leaving the released handle in c.db
connCloseKeepsHandle(c, hp) ==
    IF c.db # NULL
    THEN [conn |-> [c EXCEPT !.fin = FALSE], heap |-> PQfinish(hp, c.db)]
    ELSE [conn |-> c, heap |-> hp]

\* driverConn.Close
connClose(c, hp) ==
    IF c.db # NULL
    THEN [conn |-> [c EXCEPT !.db = NULL, !.fin = FALSE], heap |-> PQfinish(hp, c.db)]
    ELSE [conn |-> c, heap |-> hp]

ConnClose ==
    /\ ~fault
    /\ conn.opened /\ conn.reach
    /\ LET r == connClose(conn, heap)
       IN  /\ conn' = r.conn
           /\ heap' = Collect(r.heap, Refs(r.conn, stmts, rows))
           /\ lost' = lost (+) Lost(r.heap, Refs(r.conn, stmts, rows))
    /\ ret' = Ret("ConnClose", 0, Nil, NoVal, {}, FALSE, <<>>)
    /\ UNCHANGED <<stmts, rows, dest, calls, names, server, fault>>

\* the caller drops its last reference to the connection
DropConn ==
    /\ ~fault
    /\ conn.opened /\ conn.reach
    /\ conn' = [conn EXCEPT !.reach = FALSE]
    /\ heap' = Collect(heap, Refs(conn', stmts, rows))
    /\ lost' = lost (+) Lost(heap, Refs(conn', stmts, rows))
    /\ UNCHANGED <<stmts, rows, dest, calls, names, server, ret, fault>>

\* the finalizer set by Open runs (*driverConn).Close once
FinalizeConn ==
    /\ ~fault
    /\ conn.opened /\ ~conn.reach /\ conn.fin
    /\ LET r == connClose([conn EXCEPT !.fin = FALSE], heap)
       IN  /\ conn' = r.conn
           /\ heap' = Collect(r.heap, Refs(r.conn, stmts, rows))
           /\ lost' = lost (+) Lost(r.heap, Refs(r.conn, stmts, rows))
    /\ ret' = Ret("finalizer", 0, Nil, NoVal, {}, FALSE, <<>>)
    /\ UNCHANGED <<stmts, rows, dest, calls, names, server, fault>>

-----------------------------------------------------------------------------
(* Statement. *)

\* as prepare, but taking the next statement number only when the server
\* accepted the statement
prepareCountsOnSuccess(c, hp, r1, r2) ==
    LET stmtname == Itoa(c.stmtNum)
        c1 == [c EXCEPT !.stmtNum = @ + 1]
        s1 == Send(hp, c.db, "PQprepare", r1)
        s2 == Send(s1.heap, c.db, "PQdescribePrepared", r2)
    IN  IF resultError(s1.heap, s1.res) # Nil
        THEN [conn |-> c, name |-> stmtname, heap |-> PQclear(s1.heap, s1.res),
              err |-> resultError(s1.heap, s1.res), stmt |-> <<>>,
              got |-> Got(PQclear(s1.heap, s1.res), s1.res)]
        ELSE IF resultError(s2.heap, s2.res) # Nil
        THEN [conn |-> c, name |-> stmtname, heap |-> PQclear(s2.heap, s2.res),
              err |-> resultError(s2.heap, s2.res), stmt |-> <<>>,
              got |-> Got(PQclear(s2.heap, s2.res), s1.res)
                      \cup Got(PQclear(s2.heap, s2.res), s2.res)]
        ELSE [conn |-> c1, name |-> stmtname,
              heap |-> PQclear(s2.heap, s2.res),
              err |-> Nil,
              stmt |-> <<[name |-> stmtname, db |-> c.db, res |-> s1.res,
                          nparams |-> PQnparams(s2.heap, s2.res),
                          fin |-> TRUE, reach |-> TRUE]>>,
              got |-> Got(PQclear(s2.heap, s2.res), s1.res)
                      \cup Got(PQclear(s2.heap, s2.res), s2.res)]

\* driverConn.Prepare on connection c with the server answering r1 to the
\* prepare and r2 to the describe
prepare(c, hp, r1, r2) ==
    LET stmtname == Itoa(c.stmtNum)
        c1 == [c EXCEPT !.stmtNum = @ + 1]
        s1 == Send(hp, c.db, "PQprepare", r1)
        s2 == Send(s1.heap, c.db, "PQdescribePrepared", r2)
    IN  IF resultError(s1.heap, s1.res) # Nil
        THEN [conn |-> c1, name |-> stmtname, heap |-> PQclear(s1.heap, s1.res),
              err |-> resultError(s1.heap, s1.res), stmt |-> <<>>,
              got |-> Got(PQclear(s1.heap, s1.res), s1.res)]
        ELSE IF resultError(s2.heap, s2.res) # Nil
        THEN [conn |-> c1, name |-> stmtname, heap |-> PQclear(s2.heap, s2.res),
              err |-> resultError(s2.heap, s2.res), stmt |-> <<>>,
              got |-> Got(PQclear(s2.heap, s2.res), s1.res)
                      \cup Got(PQclear(s2.heap, s2.res), s2.res)]
        ELSE [conn |-> c1, name |-> stmtname,
              heap |-> PQclear(s2.heap, s2.res),   \* the deferred PQclear(stmtinfo)
              err |-> Nil,
              stmt |-> <<[name |-> stmtname, db |-> c.db, res |-> s1.res,
                          nparams |-> PQnparams(s2.heap, s2.res),
                          fin |-> TRUE, reach |-> TRUE]>>,
              got |-> Got(PQclear(s2.heap, s2.res), s1.res)
                      \cup Got(PQclear(s2.heap, s2.res), s2.res)]

Prepare(r1, r2) ==
    /\ ~fault
    /\ conn.opened /\ conn.reach
    /\ conn.stmtNum < MaxPrepares
    /\ conn.db = NULL => r1 = NullResp /\ r2 = NullResp
    /\ r1.err => r2 = NullResp
    /\ HasPlace(stmts)
    /\ Cardinality(FreeSlots(heap)) >= 2
    /\ LET p == prepare(conn, heap, r1, r2)
           ss == IF p.err = Nil THEN [stmts EXCEPT ![Place(stmts)] = p.stmt[1]] ELSE stmts
       IN  /\ conn' = p.conn
           /\ heap' = Collect(p.heap, Refs(p.conn, ss, rows))
           /\ lost' = lost (+) Lost(p.heap, Refs(p.conn, ss, rows))
           /\ names' = Append(names, p.name)
           /\ stmts' = ss
           /\ ret' = Ret("Prepare", 0, p.err,
                         IF p.err = Nil THEN StmtVal(Place(stmts)) ELSE NoVal,
                         p.got, Stale(heap, conn.db),
                         <<Sent("PQprepare", conn.db, p.name, <<>>, r1)>>
                         \o (IF conn.db # NULL /\ r1.err THEN <<>>
                             ELSE <<Sent("PQdescribePrepared", conn.db, p.name, <<>>, r2)>>))
    /\ UNCHANGED <<rows, dest, calls, fault>>

\* driverStmt.NumInput
NumInput(i) == stmts[i].nparams

\* the call reached undefined behaviour and the process died in it
Crash(op, obj, via) ==
    /\ fault' = TRUE
    /\ ret' = Ret(op, obj, [kind |-> "fault"], NoVal, {}, TRUE, via)

\* driverStmt.exec: the statement is sent by name with the parameter texts
stmtExecVia(s, args, resp) ==
    <<Sent("PQexecPrepared", s.db, s.name, buildCArgs(args), resp)>>

\* driverStmt.Exec after the send
StmtExecResult(hp, cres) ==
    IF resultError(hp, cres) # Nil
    THEN [heap |-> PQclear(hp, cres), err |-> resultError(hp, cres), val |-> NoVal]
    ELSE LET n == Atoi64(PQcmdTuples(hp, cres))
         IN  [heap |-> PQclear(hp, cres),   \* the deferred PQclear
              err |-> IF n.ok THEN Nil ELSE NumErr,
              val |-> IF n.ok THEN RowsAffected(n.v) ELSE NoVal]

\* driverStmt.Exec on stmts[i] with the parameters args; sending on a
\* released session is undefined:
\* the process dies (crash) or the library answers from the freed memory
StmtExec(i, args, resp, crash) ==
    /\ ~fault
    /\ i \in 1..Len(stmts) /\ stmts[i].reach
    /\ crash => Stale(heap, stmts[i].db)
    /\ stmts[i].db = NULL => resp = NullResp
    /\ ~resp.null => FreeSlots(heap) # {}
    /\ IF crash
       THEN /\ Crash("StmtExec", i, stmtExecVia(stmts[i], args, NullResp))
            /\ UNCHANGED <<heap, lost>>
       ELSE LET s == Send(heap, stmts[i].db, "StmtExec", resp)
                r == StmtExecResult(s.heap, s.res)
            IN  /\ heap' = Collect(r.heap, Refs(conn, stmts, rows))
                /\ lost' = lost (+) Lost(r.heap, Refs(conn, stmts, rows))
                /\ ret' = Ret("StmtExec", i, r.err, r.val, Got(r.heap, s.res),
                              Stale(heap, stmts[i].db), stmtExecVia(stmts[i], args, resp))
                /\ UNCHANGED fault
    /\ UNCHANGED <<conn, stmts, rows, dest, calls, names>>

NilCols == [nil |-> TRUE, v |-> <<>>]

\* newResult
\* as newResult, but positioned on the first row instead of before it
newResultOnFirstRow(hp, res) ==
    [res |-> res, nrows |-> PQntuples(hp, res), currRow |-> 0,
     ncols |-> PQnfields(hp, res), cols |-> NilCols, fin |-> TRUE, reach |-> TRUE]

newResult(hp, res) ==
    [res |-> res, nrows |-> PQntuples(hp, res), currRow |-> -1,
     ncols |-> PQnfields(hp, res), cols |-> NilCols, fin |-> TRUE, reach |-> TRUE]

\* the lengths of the destination slice a caller passes for ncols columns
DestLens(ncols) == {n \in {ncols - 1, ncols, ncols + 1} : n >= 0}

\* as StmtQueryResult, but taking a result without rows for a failure
StmtQueryResultNeedsRows(hp, cres) ==
    IF resultError(hp, cres) # Nil \/ PQntuples(hp, cres) = 0
    THEN [heap |-> PQclear(hp, cres), err |-> ResultErr, rows |-> <<>>]
    ELSE [heap |-> hp, err |-> Nil, rows |-> <<newResult(hp, cres)>>]

\* driverStmt.Query after the send
StmtQueryResult(hp, cres) ==
    IF resultError(hp, cres) # Nil
    THEN [heap |-> PQclear(hp, cres), err |-> resultError(hp, cres), rows |-> <<>>]
    ELSE [heap |-> hp, err |-> Nil, rows |-> <<newResult(hp, cres)>>]

\* driverStmt.Query on stmts[i] with the parameters args; dlen: the slots the
\* caller will pass to Next
StmtQuery(i, args, resp, dlen, crash) ==
    /\ ~fault
    /\ i \in 1..Len(stmts) /\ stmts[i].reach
    /\ HasPlace(rows)
    /\ crash => Stale(heap, stmts[i].db)
    /\ stmts[i].db = NULL => resp = NullResp
    /\ ~resp.null => FreeSlots(heap) # {}
    /\ IF crash
       THEN /\ Crash("StmtQuery", i, stmtExecVia(stmts[i], args, NullResp))
            /\ UNCHANGED <<heap, lost, rows, dest, calls>>
       ELSE LET s == Send(heap, stmts[i].db, "StmtQuery", resp)
                r == StmtQueryResult(s.heap, s.res)
                j == Place(rows)
            IN  /\ IF r.err = Nil
                   THEN /\ dlen \in DestLens(r.rows[1].ncols)
                        /\ rows' = [rows EXCEPT ![j] = r.rows[1]]
                        /\ heap' = Collect(r.heap, Refs(conn, stmts, rows'))
                        /\ lost' = lost (+) Lost(r.heap, Refs(conn, stmts, rows'))
                        /\ dest' = [dest EXCEPT ![j] = [k \in 1..dlen |-> OldVal]]
                        /\ calls' = [calls EXCEPT ![j] = 0]
                   ELSE /\ dlen = 0
                        /\ heap' = Collect(r.heap, Refs(conn, stmts, rows))
                        /\ lost' = lost (+) Lost(r.heap, Refs(conn, stmts, rows))
                        /\ UNCHANGED <<rows, dest, calls>>
                /\ ret' = Ret("StmtQuery", i, r.err,
                              IF r.err = Nil THEN RowsVal(j) ELSE NoVal,
                              Got(r.heap, s.res), Stale(heap, stmts[i].db),
                              stmtExecVia(stmts[i], args, resp))
                /\ UNCHANGED fault
    /\ UNCHANGED <<conn, stmts, names>>

\* as stmtClose, but only disarming the finalizer
stmtCloseDisarmsOnly(s, hp) ==
    IF s.res # NULL
    THEN [stmt |-> [s EXCEPT !.fin = FALSE], heap |-> hp]
    ELSE [stmt |-> s, heap |-> hp]

\* driverStmt.Close
stmtClose(s, hp) ==
    IF s.res # NULL
    THEN [stmt |-> [s EXCEPT !.fin = FALSE], heap |-> PQclear(hp, s.res)]
    ELSE [stmt |-> s, heap |-> hp]

\* releasing a released result is undefined: the process dies or goes on
StmtClose(i, crash) ==
    /\ ~fault
    /\ i \in 1..Len(stmts) /\ stmts[i].reach
    /\ crash => Stale(heap, stmts[i].res)
    /\ stmts[i].res # NULL => heap[stmts[i].res].freed < MaxFree
    /\ LET r == stmtClose(stmts[i], heap)
       IN  /\ stmts' = [stmts EXCEPT ![i] = r.stmt]
           /\ heap' = Collect(r.heap, Refs(conn, stmts', rows))
           /\ lost' = lost (+) Lost(r.heap, Refs(conn, stmts', rows))
    /\ fault' = crash
    /\ ret' = Ret("StmtClose", i, IF crash THEN [kind |-> "fault"] ELSE Nil,
                  NoVal, {}, Stale(heap, stmts[i].res), <<>>)
    /\ UNCHANGED <<conn, rows, dest, calls, names, server>>

DropStmt(i) ==
    /\ ~fault
    /\ i \in 1..Len(stmts) /\ stmts[i].reach
    /\ stmts' = [stmts EXCEPT ![i] = Swept([@ EXCEPT !.reach = FALSE], GoneStmt)]
    /\ heap' = Collect(heap, Refs(conn, stmts', rows))
    /\ lost' = lost (+) Lost(heap, Refs(conn, stmts', rows))
    /\ UNCHANGED <<conn, rows, dest, calls, names, server, ret, fault>>

\* the finalizer set by Prepare runs (*driverStmt).Close once
FinalizeStmt(i) ==
    /\ ~fault
    /\ i \in 1..Len(stmts) /\ ~stmts[i].reach /\ stmts[i].fin
    /\ stmts[i].res # NULL => heap[stmts[i].res].freed < MaxFree
    /\ LET r == stmtClose([stmts[i] EXCEPT !.fin = FALSE], heap)
       IN  /\ stmts' = [stmts EXCEPT ![i] = Swept(r.stmt, GoneStmt)]
           /\ heap' = Collect(r.heap, Refs(conn, stmts', rows))
           /\ lost' = lost (+) Lost(r.heap, Refs(conn, stmts', rows))
    /\ ret' = Ret("finalizer", i, Nil, NoVal, {}, FALSE, <<>>)
    /\ UNCHANGED <<conn, rows, dest, calls, names, server, fault>>

-----------------------------------------------------------------------------
(* ResultSet. *)

\* a call of a native result function (PQgetisnull, PQfname) with handle res
Asked(fn, res) == [fn |-> fn, res |-> res]

\* the native call by which driverRows.Columns asks for the names: made
\* when the names are not cached and there is a column
columnsAsks(r) ==
    IF r.cols.nil /\ r.ncols > 0 THEN <<Asked("PQfname", r.res)>> ELSE <<>>

\* driverRows.Columns
columns(r, hp) ==
    IF r.cols.nil
    THEN [r EXCEPT !.cols = [nil |-> FALSE,
                             v |-> [k \in 1..r.ncols |-> PQfname(hp, r.res, k - 1)]]]
    ELSE r

RowsColumns(j) ==
    /\ ~fault
    /\ j \in 1..Len(rows) /\ rows[j].reach
    /\ rows' = [rows EXCEPT ![j] = columns(rows[j], heap)]
    /\ ret' = Ret("Columns", j, Nil, [t |-> "[]string", v |-> rows'[j].cols.v],
                  {}, columnsAsks(rows[j]) # <<>> /\ Stale(heap, rows[j].res),
                  columnsAsks(rows[j]))
    /\ UNCHANGED <<conn, stmts, dest, calls, heap, lost, names, server, fault>>

PassThroughOIDs ==
    {CHAROID, BPCHAROID, VARCHAROID, TEXTOID,
     INT2OID, INT4OID, INT8OID, OIDOID, XIDOID,
     FLOAT8OID, FLOAT4OID,
     DATEOID, TIMEOID, TIMESTAMPOID, TIMESTAMPTZOID, INTERVALOID, TIMETZOID,
     NUMERICOID}

\* as decode, but giving "false" for the wire text "f" only
decodeFalseOnlyForF(vtype, val, i) ==
    CASE vtype = BOOLOID ->
            [err |-> Nil, v |-> IF val = <<"f">> THEN StrVal(<<"f", "a", "l", "s", "e">>)
                                ELSE StrVal(<<"t", "r", "u", "e">>)]
      [] vtype = BYTEAOID ->
            IF ~HasPrefix(val, <<"\\", "x">>)
            THEN [err |-> argErr(i, "[]byte", "invalid byte string format"), v |-> NilVal]
            ELSE LET d == DecodeString(SubSeq(val, 3, Len(val)))
                 IN  IF ~d.ok THEN [err |-> argErr(i, "[]byte", d.msg), v |-> NilVal]
                     ELSE [err |-> Nil, v |-> BytesVal(d.v)]
      [] vtype \in PassThroughOIDs -> [err |-> Nil, v |-> StrVal(val)]
      [] OTHER -> [err |-> UnsupportedErr(vtype), v |-> NilVal]

\* the switch of driverRows.Next on the type of column i (0-based) for the
\* non-null wire text val
decode(vtype, val, i) ==
    CASE vtype = BOOLOID ->
            [err |-> Nil, v |-> IF val = <<"t">> THEN StrVal(<<"t", "r", "u", "e">>)
                                ELSE StrVal(<<"f", "a", "l", "s", "e">>)]
      [] vtype = BYTEAOID ->
            IF ~HasPrefix(val, <<"\\", "x">>)
            THEN [err |-> argErr(i, "[]byte", "invalid byte string format"), v |-> NilVal]
            ELSE LET d == DecodeString(SubSeq(val, 3, Len(val)))
                 IN  IF ~d.ok THEN [err |-> argErr(i, "[]byte", d.msg), v |-> NilVal]
                     ELSE [err |-> Nil, v |-> BytesVal(d.v)]
      [] vtype \in PassThroughOIDs -> [err |-> Nil, v |-> StrVal(val)]
      [] OTHER -> [err |-> UnsupportedErr(vtype), v |-> NilVal]

\* as nextLoop, but looking at the column's type before the null flag
RECURSIVE nextLoopTypeFirst(_, _, _, _)
nextLoopTypeFirst(r, hp, d, i) ==
    IF i >= Len(d) THEN [err |-> Nil, dest |-> d]
    ELSE IF i >= PQnfields(hp, r.res)
    THEN nextLoopTypeFirst(r, hp, [d EXCEPT ![i + 1] = NilVal], i + 1)
    ELSE LET isnull == PQgetisnull(hp, r.res, r.currRow, i) = 1
             c == decode(PQftype(hp, r.res, i),
                         IF isnull THEN <<>> ELSE PQgetvalue(hp, r.res, r.currRow, i), i)
         IN  IF c.err # Nil THEN [err |-> c.err, dest |-> d]
             ELSE nextLoopTypeFirst(r, hp, [d EXCEPT ![i + 1] = IF isnull THEN NilVal ELSE c.v],
                                    i + 1)

\* the loop of driverRows.Next from slot i (0-based) on: it writes the slots
\* in order and returns at the first cell that does not decode
RECURSIVE nextLoop(_, _, _, _)
nextLoop(r, hp, d, i) ==
    IF i >= Len(d) THEN [err |-> Nil, dest |-> d]
    ELSE IF PQgetisnull(hp, r.res, r.currRow, i) = 1
    THEN nextLoop(r, hp, [d EXCEPT ![i + 1] = NilVal], i + 1)
    ELSE LET c == decode(PQftype(hp, r.res, i), PQgetvalue(hp, r.res, r.currRow, i), i)
         IN  IF c.err # Nil THEN [err |-> c.err, dest |-> d]
             ELSE nextLoop(r, hp, [d EXCEPT ![i + 1] = c.v], i + 1)

\* the native call by which the loop of driverRows.Next asks for its first
\* cell: made when there is a slot to fill
nextAsks(r, d) ==
    IF Len(d) > 0 THEN <<Asked("PQgetisnull", r.res)>> ELSE <<>>

\* as next, but taking the cursor one row too far before reporting the end
nextOffByOne(r, hp, d) ==
    LET r1 == [r EXCEPT !.currRow = @ + 1]
    IN  IF r1.currRow > r1.nrows
        THEN [rows |-> r1, err |-> EOF, dest |-> d, asked |-> <<>>]
        ELSE LET l == nextLoop(r1, hp, d, 0)
             IN  [rows |-> r1, err |-> l.err, dest |-> l.dest, asked |-> nextAsks(r1, d)]

\* driverRows.Next
next(r, hp, d) ==
    LET r1 == [r EXCEPT !.currRow = @ + 1]
    IN  IF r1.currRow >= r1.nrows
        THEN [rows |-> r1, err |-> EOF, dest |-> d, asked |-> <<>>]
        ELSE LET l == nextLoop(r1, hp, d, 0)
             IN  [rows |-> r1, err |-> l.err, dest |-> l.dest, asked |-> nextAsks(r1, d)]

RowsNext(j) ==
    /\ ~fault
    /\ j \in 1..Len(rows) /\ rows[j].reach
    /\ rows[j].currRow < rows[j].nrows + MaxPast
    /\ LET n == next(rows[j], heap, dest[j])
       IN  /\ rows' = [rows EXCEPT ![j] = n.rows]
           /\ dest' = [dest EXCEPT ![j] = n.dest]
           /\ ret' = Ret("Next", j, n.err, NoVal, {}, Stale(heap, rows[j].res), n.asked)
    /\ calls' = [calls EXCEPT ![j] = @ + 1]
    /\ UNCHANGED <<conn, stmts, heap, lost, names, server, fault>>

\* as rowsClose, but leaving the released handle in r.res
rowsCloseKeepsHandle(r, hp) ==
    IF r.res # NULL
    THEN [rows |-> [r EXCEPT !.fin = FALSE], heap |-> PQclear(hp, r.res)]
    ELSE [rows |-> r, heap |-> hp]

\* driverRows.Close
rowsClose(r, hp) ==
    IF r.res # NULL
    THEN [rows |-> [r EXCEPT !.res = NULL, !.fin = FALSE], heap |-> PQclear(hp, r.res)]
    ELSE [rows |-> r, heap |-> hp]

RowsClose(j) ==
    /\ ~fault
    /\ j \in 1..Len(rows) /\ rows[j].reach
    /\ (rows[j].res # NULL => heap[rows[j].res].freed < MaxFree)
    /\ LET r == rowsClose(rows[j], heap)
       IN  /\ rows' = [rows EXCEPT ![j] = r.rows]
           /\ heap' = Collect(r.heap, Refs(conn, stmts, rows'))
           /\ lost' = lost (+) Lost(r.heap, Refs(conn, stmts, rows'))
    /\ ret' = Ret("RowsClose", j, Nil, NoVal, {}, Stale(heap, rows[j].res), <<>>)
    /\ UNCHANGED <<conn, stmts, dest, calls, names, server, fault>>

DropRows(j) ==
    /\ ~fault
    /\ j \in 1..Len(rows) /\ rows[j].reach
    /\ rows' = [rows EXCEPT ![j] = Swept([@ EXCEPT !.reach = FALSE], GoneRows)]
    /\ heap' = Collect(heap, Refs(conn, stmts, rows'))
    /\ lost' = lost (+) Lost(heap, Refs(conn, stmts, rows'))
    /\ dest' = [dest EXCEPT ![j] = IF Alive(rows'[j]) THEN @ ELSE <<>>]
    /\ calls' = [calls EXCEPT ![j] = IF Alive(rows'[j]) THEN @ ELSE 0]
    /\ UNCHANGED <<conn, stmts, names, server, ret, fault>>

\* the finalizer set by newResult runs (*driverRows).Close once
FinalizeRows(j) ==
    /\ ~fault
    /\ j \in 1..Len(rows) /\ ~rows[j].reach /\ rows[j].fin
    /\ (rows[j].res # NULL => heap[rows[j].res].freed < MaxFree)
    /\ LET r == rowsClose([rows[j] EXCEPT !.fin = FALSE], heap)
       IN  /\ rows' = [rows EXCEPT ![j] = Swept(r.rows, GoneRows)]
           /\ heap' = Collect(r.heap, Refs(conn, stmts, rows'))
           /\ lost' = lost (+) Lost(r.heap, Refs(conn, stmts, rows'))
    /\ dest' = [dest EXCEPT ![j] = <<>>]
    /\ calls' = [calls EXCEPT ![j] = 0]
    /\ ret' = Ret("finalizer", j, Nil, NoVal, {}, FALSE, <<>>)
    /\ UNCHANGED <<conn, stmts, names, server, fault>>

-----------------------------------------------------------------------------
(* The server's answers. *)

CountTexts == {<<>>, <<"3">>, <<"x">>}

ExecResps == {NullResp, ErrResp} \cup {OkResp(t, 0, NoTable) : t \in CountTexts}

PrepResps == {NullResp, ErrResp, OkResp(<<>>, 0, NoTable)}

DescResps == {NullResp, ErrResp} \cup {OkResp(<<>>, n, NoTable) : n \in {0, 1}}

\* the tables of at most MaxRows rows over column types `types`, each cell
\* drawn from pool
Tables(types, pool) ==
    UNION {{[types |-> types, cells |-> c] :
                c \in [1..n -> [1..Len(types) -> pool]]} : n \in 0..MaxRows}

\* what a Query is answered with where only the handles matter: the empty
\* result of a command and one row of one column
LifeTables ==
    {NoTable, [types |-> <<INT4OID>>, cells |-> << <<Cell(<<"3">>)>> >>]}

QueryResps ==
    {NullResp, ErrResp} \cup {OkResp(Itoa(Len(t.cells)), 0, t) : t \in LifeTables}

-----------------------------------------------------------------------------
(* The driver in use by any caller against any server: the life of the     *)
(* connection, the statements and the results and of their native handles. *)
(* Iterating a result touches no handle and no other object; it is the     *)
(* subject of SpecRows.  Begin, Commit and Rollback are Exec without       *)
(* arguments; they are the subject of SpecTx.                              *)

Next ==
    \/ \E out \in {"ok", "bad", "null"} : Open(out)
    \/ \E nargs \in {0, 1}, resp \in ExecResps :
          ConnCmd("Exec", nargs, resp) /\ UNCHANGED server
    \/ \E r1 \in PrepResps, r2 \in DescResps : Prepare(r1, r2) /\ UNCHANGED server
    \/ ConnClose
    \/ DropConn
    \/ FinalizeConn
    \/ \E i \in 1..Len(stmts), resp \in ExecResps, crash \in BOOLEAN :
          StmtExec(i, ArgsOf(NumInput(i)), resp, crash) /\ UNCHANGED server
    \/ \E i \in 1..Len(stmts), resp \in QueryResps, crash \in BOOLEAN :
          StmtQuery(i, ArgsOf(NumInput(i)), resp, Len(resp.tbl.types), crash)
          /\ UNCHANGED server
    \/ \E i \in 1..Len(stmts), crash \in BOOLEAN : StmtClose(i, crash)
    \/ \E i \in 1..Len(stmts) : DropStmt(i)
    \/ \E i \in 1..Len(stmts) : FinalizeStmt(i)
    \/ \E j \in 1..Len(rows) : RowsClose(j)
    \/ \E j \in 1..Len(rows) : DropRows(j)
    \/ \E j \in 1..Len(rows) : FinalizeRows(j)

Spec == Init /\ [][Next]_vars

-----------------------------------------------------------------------------
(* Iterating a result: the state after Open, Prepare and a successful      *)
(* Query that the server answered with any table of Schemas, then any      *)
(* sequence of Next, Columns and Close on the ResultSet.                    *)

Schemas ==
    {<<>>, <<BOOLOID>>, <<BYTEAOID>>, <<INT4OID>>, <<POINTOID>>,
     <<TEXTOID, BYTEAOID>>, <<BOOLOID, POINTOID>>}

CellPool ==
    {NullCell, Cell(<<"t">>), Cell(<<"\\", "x", "0", "a">>), Cell(<<"\\", "x", "g">>)}

RowsTables == UNION {Tables(types, CellPool) : types \in Schemas}

\* the state after Open, Prepare and a Query that the server answered with
\* the table tbl, the caller holding dlen destination slots
AfterQuery(tbl, dlen) ==
    LET c0 == [opened |-> TRUE, db |-> 1, stmtNum |-> 0, fin |-> TRUE, reach |-> TRUE]
        hp0 == Alloc([h \in 1..MaxHandles |-> Empty], "PQconnectdb",
                     OkResp(<<>>, 0, NoTable))
        p == prepare(c0, hp0, OkResp(<<>>, 0, NoTable), OkResp(<<>>, 0, NoTable))
        ss == <<p.stmt[1]>>
        hp1 == Collect(p.heap, Refs(p.conn, ss, <<>>))
        resp == OkResp(Itoa(Len(tbl.cells)), 0, tbl)
        s == Send(hp1, ss[1].db, "StmtQuery", resp)
        q == StmtQueryResult(s.heap, s.res)
    IN  /\ conn = p.conn
        /\ stmts = ss
        /\ rows = <<q.rows[1]>>
        /\ dest = <<[k \in 1..dlen |-> OldVal]>>
        /\ calls = <<0>>
        /\ heap = q.heap
        /\ lost = EmptyBag
        /\ names = <<p.name>>
        /\ server = NoServer
        /\ ret = Ret("StmtQuery", 1, q.err, RowsVal(1), Got(q.heap, s.res), FALSE,
                     stmtExecVia(ss[1], <<>>, resp))
        /\ fault = FALSE

InitRows ==
    \E tbl \in RowsTables, dlen \in 0..3 :
        dlen \in DestLens(Len(tbl.types)) /\ AfterQuery(tbl, dlen)

NextRows ==
    \/ \E j \in 1..Len(rows) : RowsNext(j)
    \/ \E j \in 1..Len(rows) : RowsColumns(j)
    \/ \E j \in 1..Len(rows) : RowsClose(j)

SpecRows == InitRows /\ [][NextRows]_vars

-----------------------------------------------------------------------------
(* Commands and transactions: the state after a successful Open, then any  *)
(* sequence of Exec, Begin, Commit, Rollback, Prepare and Close on the     *)
(* Connection and of Exec on the Statement, against a server that may      *)
(* answer anything.                                                        *)

TxCountTexts ==
    CountTexts \cup {<<"1", "2">>, <<"-", "1">>, <<"+", "7">>, <<"3", "x">>}

TxResps == {NullResp, ErrResp} \cup {OkResp(t, 0, NoTable) : t \in TxCountTexts}

InitTx ==
    /\ conn = [opened |-> TRUE, db |-> 1, stmtNum |-> 0, fin |-> TRUE, reach |-> TRUE]
    /\ stmts = <<GoneStmt>>
    /\ rows = <<GoneRows>>
    /\ dest = << <<>> >>
    /\ calls = <<0>>
    /\ heap = Alloc([h \in 1..MaxHandles |-> Empty], "PQconnectdb",
                    OkResp(<<>>, 0, NoTable))
    /\ lost = EmptyBag
    /\ names = <<>>
    /\ server = NoServer
    /\ ret = Ret("Open", 0, Nil, TxVal, Got(heap, 1), FALSE,
                 <<Sent("PQconnectdb", NULL, <<>>, <<>>, OkResp(<<>>, 0, NoTable))>>)
    /\ fault = FALSE

NextTx ==
    \/ \E op \in {"Exec", "Begin", "Commit", "Rollback"}, nargs \in {0, 1, 2},
          resp \in TxResps : ConnCmd(op, nargs, resp) /\ UNCHANGED server
    \/ \E r1 \in PrepResps, r2 \in DescResps : Prepare(r1, r2) /\ UNCHANGED server
    \/ \E resp \in ExecResps, crash \in BOOLEAN :
          StmtExec(1, ArgsOf(NumInput(1)), resp, crash) /\ UNCHANGED server
    \/ DropStmt(1)
    \/ FinalizeStmt(1)
    \/ ConnClose

SpecTx == InitTx /\ [][NextTx]_vars

-----------------------------------------------------------------------------
(* The query cycle: on the open Connection the caller repeats Prepare,     *)
(* Query, Next until the end of the data, Close of the ResultSet and Close *)
(* of the Statement, and then lets go of both.  The server accepts every   *)
(* command and answers the Query with any table of CycleTables.            *)

CycleTables == Tables(<<VARCHAROID>>, {NullCell, Cell(<<"b", "o", "b">>)})

NextCycle ==
    \/ \E n \in {0, 1} :
          /\ ret.op \in {"Open", "StmtClose"}
          /\ Prepare(OkResp(<<>>, 0, NoTable), OkResp(<<>>, n, NoTable))
          /\ UNCHANGED server
    \/ \E tbl \in CycleTables :
          /\ ret.op = "Prepare"
          /\ StmtQuery(1, ArgsOf(NumInput(1)), OkResp(Itoa(Len(tbl.cells)), 0, tbl),
                       Len(tbl.types), FALSE)
          /\ UNCHANGED server
    \/ (ret.op = "StmtQuery" \/ (ret.op = "Next" /\ ret.err # EOF)) /\ RowsNext(1)
    \/ ret.op = "Next" /\ ret.err = EOF /\ RowsClose(1)
    \/ ret.op = "RowsClose" /\ StmtClose(1, FALSE)
    \/ ret.op = "StmtClose" /\ DropRows(1)
    \/ ret.op = "StmtClose" /\ DropStmt(1)

SpecCycle == InitTx /\ [][NextCycle]_vars

-----------------------------------------------------------------------------
(* Decoding one cell: the state after Open, Prepare and a Query answered   *)
(* with one row of one column, of any type identifier of DecodeOIDs and    *)
(* any cell of DecodeCells, then any sequence of Next, Columns and Close.  *)

\* type identifiers outside the switch of driverRows.Next
OtherOIDs == {0, 19, POINTOID, 2950}

DecodeOIDs == {BOOLOID, BYTEAOID} \cup PassThroughOIDs \cup OtherOIDs

DecodeCells ==
    {NullCell, Cell(<<>>), Cell(<<"t">>), Cell(<<"f">>), Cell(<<"3">>),
     Cell(<<"t", "r", "u", "e">>), Cell(<<"x", "0", "a">>),
     Cell(<<"\\", "x">>), Cell(<<"\\", "x", "0", "A">>), Cell(<<"\\", "x", "g">>)}

InitDecode ==
    \E vtype \in DecodeOIDs, cell \in DecodeCells :
        AfterQuery([types |-> <<vtype>>, cells |-> << <<cell>> >>], 1)

SpecDecode == InitDecode /\ [][NextRows]_vars

-----------------------------------------------------------------------------
(* Binary data: the state after Open and the Prepare of a statement that   *)
(* selects its one byte-array parameter, then any sequence of Query with a *)
(* byte sequence, Next, Columns and Close.  The server answers with one    *)
(* row of one byte-array column holding the parameter in the hex output    *)
(* format, which for a parameter text in lower-case hex is the same text.  *)

Bytes == {0, 10, 171, 255}

ByteSeqs == UNION {[1..n -> Bytes] : n \in 0..MaxBytes}

EchoResp(cargs) ==
    OkResp(<<"1">>, 0, [types |-> <<BYTEAOID>>, cells |-> << <<Cell(cargs[1])>> >>])

\* the state after Open and a Prepare that the server accepted, describing
\* the statement with nparams parameters
AfterPrepare(nparams) ==
    LET c0 == [opened |-> TRUE, db |-> 1, stmtNum |-> 0, fin |-> TRUE, reach |-> TRUE]
        hp0 == Alloc([h \in 1..MaxHandles |-> Empty], "PQconnectdb",
                     OkResp(<<>>, 0, NoTable))
        p == prepare(c0, hp0, OkResp(<<>>, 0, NoTable), OkResp(<<>>, nparams, NoTable))
    IN  /\ conn = p.conn
        /\ stmts = <<p.stmt[1]>>
        /\ rows = <<GoneRows>>
        /\ dest = << <<>> >>
        /\ calls = <<0>>
        /\ heap = Collect(p.heap, Refs(p.conn, <<p.stmt[1]>>, <<>>))
        /\ lost = EmptyBag
        /\ names = <<p.name>>
        /\ server = NoServer
        /\ ret = Ret("Prepare", 0, p.err, StmtVal(1), p.got, FALSE,
                     <<Sent("PQprepare", 1, p.name, <<>>, OkResp(<<>>, 0, NoTable)),
                       Sent("PQdescribePrepared", 1, p.name, <<>>,
                            OkResp(<<>>, nparams, NoTable))>>)
        /\ fault = FALSE

InitBlob == AfterPrepare(1)

NextBlob ==
    \/ \E b \in ByteSeqs :
          /\ StmtQuery(1, <<BytesVal(b)>>, EchoResp(buildCArgs(<<BytesVal(b)>>)), 1, FALSE)
          /\ UNCHANGED server
    \/ RowsNext(1)
    \/ RowsColumns(1)
    \/ RowsClose(1)
    \/ DropRows(1)

SpecBlob == InitBlob /\ [][NextBlob]_vars

-----------------------------------------------------------------------------
(* Querying: the state after Open and Prepare, then any sequence of Query  *)
(* on the Statement, answered with no result, an error, or any table of    *)
(* QueryTables, and of Next, Columns and Close on the ResultSet.           *)

QueryTables ==
    {NoTable, [types |-> <<INT4OID>>, cells |-> <<>>],
     [types |-> <<TEXTOID, INT4OID>>, cells |-> <<>>]}
    \cup Tables(<<INT4OID>>, {NullCell, Cell(<<"3">>)})

AllQueryResps ==
    {NullResp, ErrResp} \cup {OkResp(Itoa(Len(t.cells)), 0, t) : t \in QueryTables}

InitQuery == \E n \in {0, 1} : AfterPrepare(n)

NextQuery ==
    \/ \E resp \in AllQueryResps, dlen \in 0..3 :
          /\ StmtQuery(1, ArgsOf(NumInput(1)), resp, dlen, FALSE)
          /\ UNCHANGED server
    \/ RowsNext(1)
    \/ RowsColumns(1)
    \/ RowsClose(1)
    \/ DropRows(1)
    \/ FinalizeRows(1)

SpecQuery == InitQuery /\ [][NextQuery]_vars

-----------------------------------------------------------------------------
(* The prepared-statement test against a server that stores and orders     *)
(* rows correctly: the server keeps the text of each prepared statement    *)
(* under its name and the inserted numbers in server.t; it answers an      *)
(* executed INSERT with the count text "1" after storing the number it     *)
(* reads from the parameter text, and an executed SELECT with the stored   *)
(* numbers, largest first, as one INT4OID column.                          *)

MaxInserts == 3
Inserted == 1..3

Max(S) == CHOOSE x \in S : \A y \in S : y <= x

Range(t) == {t[k] : k \in 1..Len(t)}

RECURSIVE OrderDesc(_)
OrderDesc(t) ==
    IF t = <<>> THEN <<>>
    ELSE LET k == CHOOSE k \in 1..Len(t) : t[k] = Max(Range(t))
         IN  <<t[k]>> \o OrderDesc(SubSeq(t, 1, k - 1) \o SubSeq(t, k + 1, Len(t)))

QueryOf(name) == (CHOOSE p \in server.prepared : p.name = name).query

IsPrepared(i, query) ==
    /\ i \in 1..Len(stmts) /\ stmts[i].reach
    /\ \E p \in server.prepared : p.name = stmts[i].name
    /\ QueryOf(stmts[i].name) = query

SelectResp(t) ==
    OkResp(Itoa(Len(t)), 0,
           [types |-> <<INT4OID>>,
            cells |-> [k \in 1..Len(t) |-> <<Cell(Itoa(OrderDesc(t)[k]))>>]])

InitServer ==
    /\ conn = [opened |-> TRUE, db |-> 1, stmtNum |-> 0, fin |-> TRUE, reach |-> TRUE]
    /\ stmts = <<GoneStmt, GoneStmt>>
    /\ rows = <<GoneRows>>
    /\ dest = << <<>> >>
    /\ calls = <<0>>
    /\ heap = Alloc([h \in 1..MaxHandles |-> Empty], "PQconnectdb",
                    OkResp(<<>>, 0, NoTable))
    /\ lost = EmptyBag
    /\ names = <<>>
    /\ server = NoServer
    /\ ret = Ret("Open", 0, Nil, TxVal, Got(heap, 1), FALSE,
                 <<Sent("PQconnectdb", NULL, <<>>, <<>>, OkResp(<<>>, 0, NoTable))>>)
    /\ fault = FALSE

ServerPrepare(query) ==
    /\ Prepare(OkResp(<<>>, 0, NoTable),
               OkResp(<<>>, IF query = "INSERT" THEN 1 ELSE 0, NoTable))
    /\ server' = [server EXCEPT
                    !.prepared = @ \cup {[name |-> Itoa(conn.stmtNum), query |-> query]}]

ServerInsert(i, n) ==
    /\ IsPrepared(i, "INSERT")
    /\ Len(server.t) < MaxInserts
    /\ StmtExec(i, <<IntVal(n)>>, OkResp(<<"1">>, 0, NoTable), FALSE)
    /\ server' = [server EXCEPT !.t = Append(@, Atoi64(ret'.via[1].cargs[1]).v)]

ServerSelect(i) ==
    /\ IsPrepared(i, "SELECT")
    /\ StmtQuery(i, <<>>, SelectResp(server.t), 1, FALSE)
    /\ UNCHANGED server

NextServer ==
    \/ \E query \in {"INSERT", "SELECT"} : ServerPrepare(query)
    \/ \E i \in 1..2, n \in Inserted : ServerInsert(i, n)
    \/ \E i \in 1..2 : ServerSelect(i)
    \/ RowsNext(1)
    \/ RowsClose(1)
    \/ DropRows(1)

SpecServer == InitServer /\ [][NextServer]_vars

-----------------------------------------------------------------------------
(* Properties of the handles (checked under Spec). *)

Handles == DOMAIN heap

\* C1: the prepared-statement result handle of a Statement is released at
\* most once, whatever sequence of Close calls and finalizer runs is made:
\* no result obtained from PQprepare is ever released twice.
C1_StmtHandleReleasedAtMostOnce ==
    /\ \A h \in Handles : heap[h].origin = "PQprepare" => heap[h].freed <= 1
    /\ \A k \in BagToSet(lost) : k.origin = "PQprepare" => k.freed <= 1

\* C2: when Prepare returns an error, every native result the call obtained
\* (the prepare result and the describe result) has been released when it
\* returns, and no Statement is returned.
C2_FailedPrepareReleasesAll ==
    (ret.op = "Prepare" /\ ret.err # Nil)
        => /\ ret.val = NoVal
           /\ \A g \in ret.got : g.freed = 1

\* C3: once the session handle of the Connection has been released, every
\* later Exec and Prepare on the Connection and every later Exec and Query
\* on a Statement prepared from it returns an error, and none of them passes
\* the released session handle to the native library.
C3_ClosedConnectionFailsCleanly ==
    (conn.opened /\ conn.db = NULL
     /\ ret.op \in {"Exec", "Prepare", "StmtExec", "StmtQuery"})
        => ret.err # Nil /\ ~ret.stale

\* C7: the session handle of an opened Connection is released exactly once,
\* by the first Close (explicit or by the finalizer): while c.db is set the
\* handle is live, Close clears c.db and disarms the finalizer, no session
\* handle is ever released twice or left unreleased by a Close, and Close
\* returns success.
C7_SessionReleasedExactlyOnce ==
    /\ \A h \in Handles : heap[h].origin = "PQconnectdb" =>
          /\ heap[h].freed <= 1
          /\ heap[h].freed = 0 <=> (conn.opened /\ conn.db = h)
    /\ (conn.opened /\ conn.db # NULL) =>
          heap[conn.db].origin = "PQconnectdb" /\ heap[conn.db].freed = 0
    /\ (conn.opened /\ conn.db = NULL) => ~conn.fin
    /\ \A k \in BagToSet(lost) : k.origin # "PQconnectdb"
    /\ ret.op = "ConnClose" => ret.err = Nil /\ conn.db = NULL

\* a Close has released the session while a Statement still names it
C7_Witness ==
    /\ ret.op = "ConnClose" /\ conn.opened /\ conn.db = NULL
    /\ \E h \in Handles : heap[h].origin = "PQconnectdb" /\ heap[h].freed = 1

\* C8: the result handle of a ResultSet made by Query is released exactly
\* once, by the first Close (explicit or by the finalizer): a live Query
\* result is owned by exactly one ResultSet and not yet released, a closed
\* ResultSet holds no handle and has its finalizer disarmed, no Query result
\* is released twice, and Close returns success.
C8_ResultReleasedExactlyOnce ==
    /\ \A h \in Handles : heap[h].origin = "StmtQuery" =>
          /\ heap[h].freed = 0
          /\ Cardinality({j \in 1..Len(rows) : Alive(rows[j]) /\ rows[j].res = h}) = 1
    /\ \A j \in 1..Len(rows) :
          /\ (Alive(rows[j]) /\ rows[j].res # NULL) =>
                heap[rows[j].res].origin = "StmtQuery"
          /\ (rows[j].reach /\ rows[j].res = NULL /\ rows[j].nrows > 0) => ~rows[j].fin
    /\ \A k \in BagToSet(lost) : k.origin # "StmtQuery"
    /\ ret.op = "RowsClose" => ret.err = Nil /\ rows[ret.obj].res = NULL

\* Close has run on a ResultSet that held a result with a row
C8_Witness ==
    /\ ret.op = "RowsClose"
    /\ rows[ret.obj].reach /\ rows[ret.obj].res = NULL /\ rows[ret.obj].nrows > 0

\* C9: a native result obtained by Connection.Exec, Statement.Exec or
\* Statement.Query has been released exactly once when the call returns, on
\* every path but a successful Query, whose result is live and owned by the
\* ResultSet returned; no such result stays behind unreleased or is released
\* again later.
C9_ExecResultReleasedOnReturn ==
    /\ ret.op \in {"Exec", "StmtExec", "StmtQuery"} =>
          \A g \in ret.got :
              IF ret.op = "StmtQuery" /\ ret.err = Nil
              THEN /\ g.freed = 0
                   /\ ret.val.t = "driverRows"
                   /\ rows[ret.val.j].res = g.h
              ELSE g.freed = 1
    /\ \A h \in Handles : heap[h].origin \notin {"ConnExec", "StmtExec"}
    /\ \A k \in BagToSet(lost) : k.origin \notin {"ConnExec", "StmtExec", "StmtQuery"}

\* Connection.Exec got a result whose count text does not convert
C9_Witness ==
    ret.op = "Exec" /\ ret.err = NumErr /\ ret.got # {}

\* C10: the statement names of the Prepare calls made on the Connection are
\* pairwise different, whether the calls succeeded or failed, and the
\* counter has advanced by one for each of them.
C10_StatementNamesNeverReused ==
    /\ conn.stmtNum = Len(names)
    /\ \A a, b \in 1..Len(names) : a # b => names[a] # names[b]

\* a Prepare failed after an earlier Prepare
C10_Witness ==
    ret.op = "Prepare" /\ ret.err # Nil /\ Len(names) >= 2

-----------------------------------------------------------------------------
(* Properties of iteration (checked under SpecRows). *)

IsDecodeErr(e) == e.kind \in {"argErr", "unsupported type oid"}

\* C4: a Next that returns a DecodeError has modified no destination slot.
C4_DecodeErrorLeavesSlots ==
    [][(calls' # calls /\ IsDecodeErr(ret'.err)) => dest' = dest]_vars

\* C5: the cursor position of a ResultSet never decreases and never exceeds
\* the materialized row count.
C5_CursorMonotoneAndBounded ==
    [][\A j \in 1..Len(rows) :
          /\ rows'[j].currRow >= rows[j].currRow
          /\ rows'[j].currRow <= rows'[j].nrows]_vars

\* every non-null cell of the table decodes
AllDecodable(tbl) ==
    \A r \in 1..Len(tbl.cells), c \in 1..Len(tbl.types) :
        tbl.cells[r][c].null \/ decode(tbl.types[c], tbl.cells[r][c].val, c - 1).err = Nil

\* what row k (from 1) of the table is in n destination slots: the decoded
\* cells, the "no value" sentinel for a null cell and for a slot past the
\* last column
RowAsDelivered(tbl, k, n) ==
    [i \in 1..n |->
        IF i > Len(tbl.types) \/ tbl.cells[k][i].null THEN NilVal
        ELSE decode(tbl.types[i], tbl.cells[k][i].val, i - 1).v]

\* C6: on a ResultSet of n rows whose cells all decode, call k of Next, for
\* k <= n, succeeds and delivers row k - 1 (while the ResultSet is open);
\* every call after the n-th returns EndOfData and leaves in the slots what
\* the last successful call delivered.  Checked for the calls up to MaxPast
\* past the end.
C6_NextDeliversRowsThenEndOfData ==
    \A j \in 1..Len(rows) :
        (ret.op = "Next" /\ ret.obj = j /\ rows[j].reach) =>
            /\ calls[j] > rows[j].nrows => ret.err = EOF
            /\ (rows[j].res # NULL /\ AllDecodable(heap[rows[j].res].resp.tbl)) =>
                  LET tbl == heap[rows[j].res].resp.tbl
                      n == Len(tbl.cells)
                      k == calls[j]
                  IN  /\ n = rows[j].nrows
                      /\ k <= n => ret.err = Nil
                      /\ k > n => ret.err = EOF
                      /\ dest[j] = IF n = 0 THEN [i \in 1..Len(dest[j]) |-> OldVal]
                                   ELSE RowAsDelivered(tbl, IF k <= n THEN k ELSE n,
                                                       Len(dest[j]))

\* Next has been called twice past the end of an open two-row result of two
\* columns whose cells all decode
C6_Witness ==
    /\ ret.op = "Next" /\ ret.err = EOF /\ rows[1].res # NULL
    /\ rows[1].nrows = 2 /\ rows[1].ncols = 2 /\ calls[1] = 4
    /\ AllDecodable(heap[rows[1].res].resp.tbl)
    /\ dest[1] = <<StrVal(<<"t">>), BytesVal(<<10>>)>>

-----------------------------------------------------------------------------
(* Properties of the query cycle (checked under SpecCycle). *)

\* the native handles that are allocated and not released
Live(hp) == {h \in DOMAIN hp : hp[h] # Empty /\ hp[h].freed = 0}

\* C11: repeating the cycle Prepare, Query, Next until the end of the data,
\* Close of the ResultSet, Close of the Statement accumulates no native
\* handle: no handle is ever released twice or lost unreleased, every
\* result the Prepare obtained is accounted for when it returns, and when a
\* cycle is complete the only live handle is the session, as before it.
C11_CycleAccumulatesNoHandles ==
    /\ lost = EmptyBag
    /\ \A h \in Handles : heap[h].freed <= 1
    /\ ret.op = "Prepare" => \A g \in ret.got : g.freed = 1 \/ g.h = stmts[1].res
    /\ ret.op = "StmtClose" =>
          /\ Live(heap) = {conn.db}
          /\ \A h \in Handles : heap[h].origin \in {"", "PQconnectdb", "PQprepare"}
          /\ \A h \in Handles : heap[h].origin = "PQprepare" => heap[h].freed = 1

\* the second cycle is complete, after a result of two rows was read to the
\* end
C11_Witness ==
    /\ ret.op = "StmtClose" /\ Len(names) = 2
    /\ rows[1].reach /\ rows[1].nrows = 2 /\ calls[1] = 3 /\ rows[1].res = NULL

-----------------------------------------------------------------------------
(* Properties of decoding (checked under SpecRows). *)

\* the cell of the current row in column c (from 1) does not decode
Undecodable(tbl, row, c) ==
    /\ ~tbl.cells[row][c].null
    /\ decode(tbl.types[c], tbl.cells[row][c].val, c - 1).err # Nil

\* C12: when Next reads a row of an open ResultSet, every slot it reaches
\* whose cell is null holds the "no value" sentinel, whatever the type of
\* the column; a DecodeError comes from a cell that is not null, and a row
\* whose cells are all null is delivered without error.
C12_NullCellGivesNoValue ==
    \A j \in 1..Len(rows) :
        (ret.op = "Next" /\ ret.obj = j /\ rows[j].res # NULL
         /\ rows[j].currRow < rows[j].nrows) =>
            LET tbl == heap[rows[j].res].resp.tbl
                row == rows[j].currRow + 1
                cols == {c \in 1..Len(tbl.types) : c <= Len(dest[j])}
                reached == {c \in cols : \A b \in 1..(c - 1) : ~Undecodable(tbl, row, b)}
            IN  /\ \A c \in reached : tbl.cells[row][c].null => dest[j][c] = NilVal
                /\ IsDecodeErr(ret.err) => \E c \in reached : Undecodable(tbl, row, c)
                /\ (\A c \in cols : tbl.cells[row][c].null) => ret.err = Nil

\* Next has delivered a row whose cell in a column without decoding rule is
\* null
C12_Witness ==
    /\ ret.op = "Next" /\ ret.err = Nil /\ rows[1].res # NULL /\ rows[1].currRow = 0
    /\ heap[rows[1].res].resp.tbl.types = <<BOOLOID, POINTOID>>
    /\ heap[rows[1].res].resp.tbl.cells[1] = <<Cell(<<"t">>), NullCell>>
    /\ dest[1] = <<StrVal(<<"t", "r", "u", "e">>), NilVal>>

-----------------------------------------------------------------------------
(* Properties of commands and transactions (checked under SpecTx). *)

\* the number a count text of TxCountTexts stands for, if it is one
CountOf(t) ==
    CASE t = <<"3">> -> [ok |-> TRUE, n |-> 3]
      [] t = <<"1", "2">> -> [ok |-> TRUE, n |-> 12]
      [] t = <<"-", "1">> -> [ok |-> TRUE, n |-> 0 - 1]
      [] t = <<"+", "7">> -> [ok |-> TRUE, n |-> 7]
      [] OTHER -> [ok |-> FALSE, n |-> 0]

\* C13: Connection.Exec sends its command once, over the plain send when
\* the parameter list is empty and over the parameterized send otherwise,
\* and classifies the server's response: a server-reported error gives
\* the CommandError; else an empty count text gives the "acknowledged, no
\* count" sentinel, a count text that is an integer gives RowsAffected of
\* that number, and any other count text gives an error.  (No result at
\* all carries no error and no count text.)
C13_ExecClassifiesResponse ==
    ret.op = "Exec" =>
        /\ Len(ret.via) = 1
        /\ ret.via[1].text = QueryText
        /\ ret.via[1].fn = IF ret.via[1].cargs = <<>> THEN "PQexec" ELSE "PQexecParams"
        /\ LET resp == ret.via[1].resp
           IN  IF resp.err THEN ret.err = ResultErr /\ ret.val = NoVal
               ELSE IF resp.tuples = <<>> THEN ret.err = Nil /\ ret.val = DDLSuccess
               ELSE IF CountOf(resp.tuples).ok
               THEN ret.err = Nil /\ ret.val = RowsAffected(CountOf(resp.tuples).n)
               ELSE ret.err = NumErr /\ ret.val = NoVal

\* Exec with two parameters was answered with the count 12
C13_Witness ==
    /\ ret.op = "Exec" /\ ret.val = RowsAffected(12)
    /\ ret.via[1].fn = "PQexecParams" /\ Len(ret.via[1].cargs) = 2

\* C18: Begin, Commit and Rollback each send exactly one command, their
\* own, without parameters over the session of the Connection; Begin
\* returns the Connection as the transaction handle when the command
\* succeeded, and the error and no handle when the command failed (an
\* error result, or no result at all).
C18_BeginSendsOneCommand ==
    ret.op \in {"Begin", "Commit", "Rollback"} =>
        /\ Len(ret.via) = 1
        /\ ret.via[1].fn = "PQexec" /\ ret.via[1].cargs = <<>>
        /\ ret.via[1].text = CmdText(ret.op)
        /\ ret.via[1].db = conn.db
        /\ ret.op = "Begin" =>
              /\ ret.err = Nil => ret.val = TxVal
              /\ ret.err # Nil => ret.val = NoVal
              /\ (ret.via[1].resp.null \/ ret.via[1].resp.err) => ret.err # Nil

-----------------------------------------------------------------------------
(* Properties of binary data (checked under SpecBlob). *)

\* C14: for every byte sequence b, the parameter text that buildCArgs makes
\* of b, coming back as the cell of a byte-array column, is decoded by the
\* first Next to exactly b, without error.
C14_ByteaRoundTrip ==
    (ret.op = "Next" /\ calls[1] = 1 /\ rows[1].res # NULL) =>
        \A b \in ByteSeqs :
            heap[rows[1].res].resp.tbl.cells[1][1] = Cell(buildCArgs(<<BytesVal(b)>>)[1])
                => ret.err = Nil /\ dest[1] = <<BytesVal(b)>>

\* the empty byte sequence has made the round trip
C14_Witness ==
    /\ ret.op = "Next" /\ calls[1] = 1 /\ rows[1].res # NULL
    /\ heap[rows[1].res].resp.tbl.cells[1][1] = Cell(<<"\\", "x">>)
    /\ dest[1] = <<BytesVal(<<>>)>>

-----------------------------------------------------------------------------
(* Properties of decoding one cell (checked under SpecDecode). *)

\* the character, numeric, date and time identifiers of the decoding table
ListedOIDs ==
    {CHAROID, BPCHAROID, VARCHAROID, TEXTOID, INT2OID, INT4OID, INT8OID,
     OIDOID, XIDOID, FLOAT4OID, FLOAT8OID, NUMERICOID, DATEOID, TIMEOID,
     TIMESTAMPOID, TIMESTAMPTZOID, INTERVALOID, TIMETZOID}

\* C15: the first Next on an open one-cell result whose cell is not null
\* decodes it by the type identifier of its column: boolean gives the text
\* "true" for the wire text "t" and "false" for any other; byte-array text
\* without the prefix \x gives the DecodeError "invalid byte string format"
\* and with it bytes or a DecodeError; a listed character, numeric, date or
\* time identifier gives the wire text unchanged; any other identifier
\* gives the DecodeError naming that identifier; on a DecodeError the slot
\* keeps what it held.
C15_DecodeFollowsTable ==
    (ret.op = "Next" /\ calls[1] = 1 /\ rows[1].res # NULL
     /\ ~heap[rows[1].res].resp.tbl.cells[1][1].null) =>
        LET vtype == heap[rows[1].res].resp.tbl.types[1]
            val == heap[rows[1].res].resp.tbl.cells[1][1].val
        IN  CASE vtype = BOOLOID ->
                    /\ ret.err = Nil
                    /\ dest[1][1] = IF val = <<"t">> THEN StrVal(<<"t", "r", "u", "e">>)
                                    ELSE StrVal(<<"f", "a", "l", "s", "e">>)
              [] vtype = BYTEAOID ->
                    IF Len(val) >= 2 /\ val[1] = "\\" /\ val[2] = "x"
                    THEN \/ ret.err = Nil /\ dest[1][1].t = "[]byte"
                         \/ ret.err.kind = "argErr" /\ dest[1][1] = OldVal
                    ELSE /\ ret.err = argErr(0, "[]byte", "invalid byte string format")
                         /\ dest[1][1] = OldVal
              [] vtype \in ListedOIDs -> ret.err = Nil /\ dest[1][1] = StrVal(val)
              [] OTHER ->
                    /\ ret.err.kind = "unsupported type oid" /\ ret.err.oid = vtype
                    /\ dest[1][1] = OldVal

\* Next has met a cell of a type identifier without decoding rule
C15_Witness ==
    /\ ret.op = "Next" /\ calls[1] = 1 /\ rows[1].res # NULL
    /\ heap[rows[1].res].resp.tbl.types = <<2950>>
    /\ heap[rows[1].res].resp.tbl.cells[1][1] = Cell(<<"3">>)
    /\ ret.err = UnsupportedErr(2950)

-----------------------------------------------------------------------------
(* Properties of querying (checked under SpecQuery). *)

\* C16: a Query whose response carries no server-reported error returns a
\* ResultSet, positioned before the first row, of as many rows as the
\* response has, zero included; on a ResultSet of zero rows every Next,
\* the first included, returns EndOfData; and neither call reports an error.
C16_ZeroRowQueryGivesResultSet ==
    /\ (ret.op = "StmtQuery" /\ ~ret.via[1].resp.err) =>
          ret.err = Nil /\ ret.val = RowsVal(1)
    /\ (ret.op = "StmtQuery" /\ ~ret.via[1].resp.err /\ rows[1].reach) =>
          /\ rows[1].currRow = -1
          /\ rows[1].nrows = Len(ret.via[1].resp.tbl.cells)
          /\ rows[1].ncols = Len(ret.via[1].resp.tbl.types)
    /\ (ret.op = "Next" /\ rows[1].reach /\ rows[1].nrows = 0) => ret.err = EOF

\* the first Next on a ResultSet of one column and zero rows
C16_Witness ==
    /\ ret.op = "Next" /\ ret.err = EOF /\ calls[1] = 1
    /\ rows[1].res # NULL /\ rows[1].nrows = 0 /\ rows[1].ncols = 1

-----------------------------------------------------------------------------
(* Properties of the prepared-statement test (checked under SpecServer). *)

\* C17: against the server that stores and orders rows, every Exec of the
\* prepared INSERT succeeds (one row affected), every Query of the prepared
\* SELECT succeeds with a ResultSet, and the first Next on an open ResultSet
\* of the rows stored so far delivers the largest stored number as text:
\* "3" after 1, 2 and 3 were inserted.
C17_FirstRowIsLargest ==
    /\ ret.op = "StmtExec" => ret.err = Nil /\ ret.val = RowsAffected(1)
    /\ ret.op = "StmtQuery" => ret.err = Nil /\ ret.val = RowsVal(1)
    /\ (/\ ret.op = "Next" /\ calls[1] = 1 /\ rows[1].reach /\ rows[1].res # NULL
        /\ server.t # <<>> /\ rows[1].nrows = Len(server.t)) =>
          /\ ret.err = Nil
          /\ dest[1] = <<StrVal(Itoa(Max(Range(server.t))))>>
          /\ Range(server.t) = {1, 2, 3} => dest[1] = <<StrVal(<<"3">>)>>

\* the first Next after 1, 2 and 3 were inserted in this order
C17_Witness ==
    /\ server.t = <<1, 2, 3>>
    /\ ret.op = "Next" /\ calls[1] = 1 /\ rows[1].reach /\ rows[1].nrows = 3
    /\ rows[1].res # NULL /\ dest[1] = <<StrVal(<<"3">>)>>

-----------------------------------------------------------------------------
(* Properties of a closed ResultSet (checked under SpecRows). *)

\* C19: no Next and no Columns call reads a released result handle, and
\* none passes the handle that Close cleared (NULL) to the native library,
\* neither to fetch a cell nor to ask for the column names.
C19_ClosedHandleNotPassed ==
    ret.op \in {"Next", "Columns"} =>
        /\ ~ret.stale
        /\ \A k \in 1..Len(ret.via) : ret.via[k].res # NULL

-----------------------------------------------------------------------------
(* Properties of Statement.Exec (checked under SpecTx). *)

\* C20: when the server accepts the executed statement (a result without
\* an error) and reports no affected-row count (empty count text),
\* Statement.Exec does not fail.
C20_StmtExecAcceptsEmptyCount ==
    (/\ ret.op = "StmtExec"
     /\ ~ret.via[1].resp.null /\ ~ret.via[1].resp.err
     /\ ret.via[1].resp.tuples = <<>>) => ret.err = Nil

====
